---- MODULE Spec2Model ----
(***************************************************************************)
(* State-machine model of the <vaadin-clock> web component                 *)
(* (src/unnamed/part_004, the version of packages/clock/src/vaadin-clock.js *)
(* with the running clock).                                                *)
(*                                                                         *)
(* Strings are sequences of one-character strings, so that split, parseInt *)
(* and padStart are computed character by character.  The null string is   *)
(* the distinguished sequence NULL, the null timestamp is NullTs and the   *)
(* null frame handle is NoFrame.                                           *)
(*                                                                         *)
(* A property assignment and the observer the property declares            *)
(* (observer: '_valueChanged', observer: '_runningChanged') form one step: *)
(* the assignment first, then the observer, which runs only when the       *)
(* assigned value differs from the current one.                            *)
(***************************************************************************)
EXTENDS Integers, Sequences, FiniteSets

VARIABLES
  value, running, min, max, disabled, readonly, adjustable, step, label,
  _hours, _minutes, _seconds,
  _animationFrameId, _draggingHand, _focused,
  _baseTimeMs, _runStartTimestamp, _accumulatedMs,
  connected, frames, now,
  hist, lastValid, ranMs, ticks, keys,
  call

vars == <<value, running, min, max, disabled, readonly, adjustable, step,
          label,
          _hours, _minutes, _seconds,
          _animationFrameId, _draggingHand, _focused,
          _baseTimeMs, _runStartTimestamp, _accumulatedMs,
          connected, frames, now,
          hist, lastValid, ranMs, ticks, keys, call>>

(***************************************************************************)
(* Strings                                                                 *)
(***************************************************************************)
NULL == <<"null">>

\* A number or NaN.
Num(n) == [nan |-> FALSE, n |-> n]

NaN == [nan |-> TRUE, n |-> 0]

Falsy(s) == s = NULL \/ s = <<>>

IsDigit(c) == c \in {"0", "1", "2", "3", "4", "5", "6", "7", "8", "9"}

DigitVal(c) ==
  CASE c = "0" -> 0 [] c = "1" -> 1 [] c = "2" -> 2 [] c = "3" -> 3
    [] c = "4" -> 4 [] c = "5" -> 5 [] c = "6" -> 6 [] c = "7" -> 7
    [] c = "8" -> 8 [] c = "9" -> 9

DigitChar(d) ==
  CASE d = 0 -> "0" [] d = 1 -> "1" [] d = 2 -> "2" [] d = 3 -> "3"
    [] d = 4 -> "4" [] d = 5 -> "5" [] d = 6 -> "6" [] d = 7 -> "7"
    [] d = 8 -> "8" [] d = 9 -> "9"

\* String.prototype.split(':'): the pieces between the separators.
RECURSIVE SplitFrom(_, _, _)
SplitFrom(s, i, cur) ==
  IF i > Len(s) THEN <<cur>>
  ELSE IF s[i] = ":" THEN <<cur>> \o SplitFrom(s, i + 1, <<>>)
  ELSE SplitFrom(s, i + 1, Append(cur, s[i]))

Split(s) == SplitFrom(s, 1, <<>>)

\* The digits of s from position i on, as a number continuing acc.
RECURSIVE DigitsFrom(_, _, _)
DigitsFrom(s, i, acc) ==
  IF i > Len(s) \/ ~IsDigit(s[i]) THEN acc
  ELSE DigitsFrom(s, i + 1, acc * 10 + DigitVal(s[i]))

RECURSIVE SkipSpaces(_, _)
SkipSpaces(s, i) ==
  IF i <= Len(s) /\ s[i] = " " THEN SkipSpaces(s, i + 1) ELSE i

\* parseInt(s, 10): leading blanks, an optional sign, then the longest run
\* of digits; NaN when there is no digit.
ParseInt(s) ==
  LET i == SkipSpaces(s, 1)
      neg == i <= Len(s) /\ s[i] = "-"
      j == IF i <= Len(s) /\ s[i] \in {"-", "+"} THEN i + 1 ELSE i
  IN IF j > Len(s) \/ ~IsDigit(s[j]) THEN NaN
     ELSE IF neg THEN Num(0 - DigitsFrom(s, j, 0)) ELSE Num(DigitsFrom(s, j, 0))

\* x || 0 for a number x or NaN.
OrZero(x) == IF x.nan THEN 0 ELSE x.n

ParseField(p) == OrZero(ParseInt(p))

\* String(n) for a non-negative integer n.
RECURSIVE NatToString(_)
NatToString(n) ==
  IF n < 10 THEN <<DigitChar(n)>>
  ELSE Append(NatToString(n \div 10), DigitChar(n % 10))

\* String(n) for an integer n.
NumToString(n) == IF n < 0 THEN <<"-">> \o NatToString(0 - n) ELSE NatToString(n)

\* String(n).padStart(2, '0')
pad(n) == LET s == NumToString(n) IN IF Len(s) < 2 THEN <<"0">> \o s ELSE s

\* formatTime joining the numbers as they are.
formatTime_Unpadded(hours, minutes, seconds) ==
  NumToString(hours) \o <<":">> \o NumToString(minutes) \o <<":">>
    \o NumToString(seconds)

formatTime(hours, minutes, seconds) ==
  pad(hours) \o <<":">> \o pad(minutes) \o <<":">> \o pad(seconds)

\* The null result of parseTime.
NoTime == [hours |-> 0, minutes |-> 0, seconds |-> 0, none |-> TRUE]

Time(h, m, s) == [hours |-> h, minutes |-> m, seconds |-> s, none |-> FALSE]

\* parseTime asking for all three fields.
parseTime_NeedsSeconds(timeString) ==
  IF Falsy(timeString) THEN NoTime
  ELSE LET parts == Split(timeString)
       IN IF Len(parts) < 3 THEN NoTime
          ELSE Time(ParseField(parts[1]), ParseField(parts[2]),
                    ParseField(parts[3]))

\* parseTime reading hours and minutes only.
parseTime_DropsSeconds(timeString) ==
  IF Falsy(timeString) THEN NoTime
  ELSE LET parts == Split(timeString)
       IN IF Len(parts) < 2 THEN NoTime
          ELSE Time(ParseField(parts[1]), ParseField(parts[2]), 0)

parseTime(timeString) ==
  IF Falsy(timeString) THEN NoTime
  ELSE LET parts == Split(timeString)
       IN IF Len(parts) < 2 THEN NoTime
          ELSE Time(ParseField(parts[1]), ParseField(parts[2]),
                    IF Len(parts) >= 3 THEN ParseField(parts[3]) ELSE 0)

(***************************************************************************)
(* Bounds and inputs                                                       *)
(***************************************************************************)
\* The number of times the wall clock advances.
MaxTicks == 2

\* The number of keydown events delivered.
MaxKeys == 2

\* The number of animation frame callbacks pending at a time.
MaxFrames == 3

\* The wall clock at construction, in ms.
Now0 == 1000

\* What the wall clock advances by: a second and a half, and half a day.
TickDeltas == {1500, 43200000}

T120000 == <<"1", "2", ":", "0", "0", ":", "0", "0">>

T235959 == <<"2", "3", ":", "5", "9", ":", "5", "9">>

T235900 == <<"2", "3", ":", "5", "9", ":", "0", "0">>

T000000 == <<"0", "0", ":", "0", "0", ":", "0", "0">>

T170000 == <<"1", "7", ":", "0", "0", ":", "0", "0">>

T0830 == <<"0", "8", ":", "3", "0">>

Tabc == <<"a", "b", "c">>

Tempty == <<>>

T256161 == <<"2", "5", ":", "6", "1", ":", "6", "1">>

(***************************************************************************)
(* Numbers                                                                 *)
(***************************************************************************)
\* JavaScript's %: the remainder has the sign of the dividend.
JsRem(a, b) == IF a >= 0 THEN a % b ELSE 0 - ((0 - a) % b)

\* 24 * 60 * 60 * 1000
dayMs == 86400000

\* 24 * 3600
daySeconds == 86400

\* The null of _runStartTimestamp.
NullTs == -1

\* if (timestamp): null and 0 are falsy.
TruthyTs(t) == t # NullTs /\ t # 0

\* The null of _animationFrameId; requestAnimationFrame handles are positive.
NoFrame == 0

\* The null of _draggingHand.
NoHand == "null"

Hands == {"hour", "minute", "second"}

(***************************************************************************)
(* The element.  A handler is an operator from the element's fields (a     *)
(* record c, "this") to the fields after it; the wall clock t is what      *)
(* Date.now() returns during the handler.  The fields fired, prevented and *)
(* rejected record what the handler did to its surroundings: value-changed *)
(* events dispatched, preventDefault/stopPropagation called on the event,  *)
(* a bounds check that refused the adjustment, and an assignment to the    *)
(* property value.                                                         *)
(***************************************************************************)
This ==
  [value |-> value, running |-> running, min |-> min, max |-> max,
   disabled |-> disabled, readonly |-> readonly, adjustable |-> adjustable,
   step |-> step, label |-> label,
   _hours |-> _hours, _minutes |-> _minutes, _seconds |-> _seconds,
   _animationFrameId |-> _animationFrameId, _draggingHand |-> _draggingHand,
   _focused |-> _focused,
   _baseTimeMs |-> _baseTimeMs, _runStartTimestamp |-> _runStartTimestamp,
   _accumulatedMs |-> _accumulatedMs,
   frames |-> frames,
   fired |-> 0, prevented |-> FALSE, rejected |-> FALSE, assigned |-> FALSE]

\* hours * 3600000 + minutes * 60000 + seconds * 1000
TimeMs(h, m, s) == h * 3600000 + m * 60000 + s * 1000

\* ((totalMs % dayMs) + dayMs) % dayMs
NormalizeMs(totalMs) == JsRem(JsRem(totalMs, dayMs) + dayMs, dayMs)

\* The hours, minutes and seconds of a time of day in ms, by Math.floor.
MsToTime(ms) ==
  Time(ms \div 3600000, (ms % 3600000) \div 60000, (ms % 60000) \div 1000)

\* new Date(): getHours(), getMinutes(), getSeconds() of the wall clock
\* (the local time zone is UTC).
WallClock(t) == MsToTime(t % dayMs)

\* _parseAndSetTime leaving the seconds alone when the string has none.
_parseAndSetTime_KeepsSeconds(c, timeString) ==
  IF Falsy(timeString) THEN c
  ELSE LET parts == Split(timeString)
       IN IF Len(parts) >= 2
          THEN [c EXCEPT !._hours = ParseField(parts[1]),
                         !._minutes = ParseField(parts[2]),
                         !._seconds = IF Len(parts) >= 3
                                      THEN ParseField(parts[3]) ELSE @]
          ELSE c

_parseAndSetTime(c, timeString) ==
  IF Falsy(timeString) THEN c
  ELSE LET parts == Split(timeString)
       IN IF Len(parts) >= 2
          THEN [c EXCEPT !._hours = ParseField(parts[1]),
                         !._minutes = ParseField(parts[2]),
                         !._seconds = IF Len(parts) >= 3
                                      THEN ParseField(parts[3]) ELSE 0]
          ELSE c

\* _valueChanged leaving the run start timestamp as it is.
_valueChanged_KeepsRunStart(c, newValue, t) ==
  IF Falsy(newValue) THEN c
  ELSE LET c1 == _parseAndSetTime(c, newValue)
           parsed == parseTime(newValue)
       IN IF parsed.none THEN c1
          ELSE [c1 EXCEPT
                  !._baseTimeMs =
                     TimeMs(parsed.hours, parsed.minutes, parsed.seconds),
                  !._accumulatedMs = 0]

_valueChanged(c, newValue, t) ==
  IF Falsy(newValue) THEN c
  ELSE LET c1 == _parseAndSetTime(c, newValue)
           parsed == parseTime(newValue)
       IN IF parsed.none THEN c1
          ELSE [c1 EXCEPT
                  !._baseTimeMs =
                     TimeMs(parsed.hours, parsed.minutes, parsed.seconds),
                  !._accumulatedMs = 0,
                  !._runStartTimestamp = IF c1.running THEN t ELSE @]

\* Elapsed running time: accumulated plus the current running period.
ElapsedMs(c, t) ==
  IF TruthyTs(c._runStartTimestamp)
  THEN c._accumulatedMs + (t - c._runStartTimestamp)
  ELSE c._accumulatedMs

\* _updateDisplayFromRunningTime counting the current running period only.
_updateDisplayFromRunningTime_CurrentPeriod(c, t) ==
  LET normalizedMs ==
        NormalizeMs(c._baseTimeMs
                    + (IF TruthyTs(c._runStartTimestamp)
                       THEN t - c._runStartTimestamp ELSE 0))
      d == MsToTime(normalizedMs)
  IN [c EXCEPT !._hours = d.hours, !._minutes = d.minutes,
               !._seconds = d.seconds]

_updateDisplayFromRunningTime(c, t) ==
  LET normalizedMs == NormalizeMs(c._baseTimeMs + ElapsedMs(c, t))
      d == MsToTime(normalizedMs)
  IN [c EXCEPT !._hours = d.hours, !._minutes = d.minutes,
               !._seconds = d.seconds]

\* requestAnimationFrame: a handle no pending callback has.
NewFrame(c) ==
  CHOOSE id \in 1..(Cardinality(c.frames) + 2) :
    /\ id \notin c.frames
    /\ id # c._animationFrameId
    /\ \A j \in 1..(id - 1) : j \in c.frames \/ j = c._animationFrameId

\* The closure animate of _startAnimation: one frame of the loop.
animate(c, t) ==
  IF ~c.running THEN c
  ELSE LET c1 == _updateDisplayFromRunningTime(c, t)
           id == NewFrame(c1)
       IN [c1 EXCEPT !.frames = @ \cup {id}, !._animationFrameId = id]

_startAnimation(c, t) == IF ~c.running THEN c ELSE animate(c, t)

\* _intervalId is never assigned, so only the frame branch acts.
_stopAnimation(c) ==
  IF c._animationFrameId # NoFrame
  THEN [c EXCEPT !.frames = @ \ {c._animationFrameId},
                 !._animationFrameId = NoFrame]
  ELSE c

_runningChanged(c, newValue, oldValue, t) ==
  IF newValue
  THEN _startAnimation([c EXCEPT !._runStartTimestamp = t], t)
  ELSE IF oldValue
  THEN _stopAnimation(
         IF TruthyTs(c._runStartTimestamp)
         THEN [c EXCEPT !._accumulatedMs = @ + (t - c._runStartTimestamp),
                        !._runStartTimestamp = NullTs]
         ELSE c)
  ELSE c

\* The update that follows a handler: the observers of the properties whose
\* value differs from the one before the handler (old), and the
\* value-changed event of the property value (notify: true).
\* Update dispatching value-changed whenever a handler assigned value.
Update_NotifiesEveryAssignment(old, c, t) ==
  LET c1 == IF c.value # old.value
            THEN _valueChanged([c EXCEPT !.fired = @ + 1], c.value, t)
            ELSE [c EXCEPT !.fired = IF c.assigned THEN 1 ELSE 0]
  IN IF c1.running # old.running
     THEN _runningChanged(c1, c1.running, old.running, t)
     ELSE c1

Update(old, c, t) ==
  LET c1 == IF c.value # old.value
            THEN _valueChanged([c EXCEPT !.fired = @ + 1], c.value, t)
            ELSE c
  IN IF c1.running # old.running
     THEN _runningChanged(c1, c1.running, old.running, t)
     ELSE c1

\* _isInteractive overlooking the readonly flag.
_isInteractive_IgnoresReadonly(c) == c.adjustable /\ ~c.disabled

_isInteractive(c) == c.adjustable /\ ~c.disabled /\ ~c.readonly

\* time.hours * 60 + time.minutes + time.seconds / 60, in seconds
\* (the comparison of two such numbers is that of their sixtyfold).
TimeMinutes60(tm) == tm.hours * 3600 + tm.minutes * 60 + tm.seconds

\* _isWithinBounds overlooking max.
_isWithinBounds_IgnoresMax(c, timeString) ==
  IF Falsy(c.min) /\ Falsy(c.max) THEN TRUE
  ELSE LET time == parseTime(timeString)
           minTime == parseTime(c.min)
       IN IF time.none THEN TRUE
          ELSE IF ~Falsy(c.min) /\ ~minTime.none
                  /\ TimeMinutes60(time) < TimeMinutes60(minTime) THEN FALSE
          ELSE TRUE

_isWithinBounds(c, timeString) ==
  IF Falsy(c.min) /\ Falsy(c.max) THEN TRUE
  ELSE LET time == parseTime(timeString)
           minTime == parseTime(c.min)
           maxTime == parseTime(c.max)
       IN IF time.none THEN TRUE
          ELSE IF ~Falsy(c.min) /\ ~minTime.none
                  /\ TimeMinutes60(time) < TimeMinutes60(minTime) THEN FALSE
          ELSE IF ~Falsy(c.max) /\ ~maxTime.none
                  /\ TimeMinutes60(time) > TimeMinutes60(maxTime) THEN FALSE
          ELSE TRUE

\* _setTimeValue restarting the measurement whether or not the clock runs.
_setTimeValue_AlwaysStamps(c, hours, minutes, seconds, t) ==
  [c EXCEPT !._hours = hours, !._minutes = minutes, !._seconds = seconds,
            !.value = formatTime(hours, minutes, seconds),
            !.assigned = TRUE,
            !._baseTimeMs = TimeMs(hours, minutes, seconds),
            !._accumulatedMs = 0,
            !._runStartTimestamp = t]

_setTimeValue(c, hours, minutes, seconds, t) ==
  [c EXCEPT !._hours = hours, !._minutes = minutes, !._seconds = seconds,
            !.value = formatTime(hours, minutes, seconds),
            !.assigned = TRUE,
            !._baseTimeMs = TimeMs(hours, minutes, seconds),
            !._accumulatedMs = 0,
            !._runStartTimestamp = IF c.running THEN t ELSE @]

\* The wrap of _adjustTimeByStep: one day added or taken off, once.
WrapSeconds(totalSeconds) ==
  IF totalSeconds < 0 THEN totalSeconds + daySeconds
  ELSE IF totalSeconds >= daySeconds THEN totalSeconds - daySeconds
  ELSE totalSeconds

\* The hours, minutes and seconds _adjustTimeByStep computes.
SecondsToTime(totalSeconds) ==
  Time(totalSeconds \div 3600, JsRem(totalSeconds, 3600) \div 60,
       JsRem(totalSeconds, 60))

AdjustedTime(c, stepSeconds) ==
  SecondsToTime(
    WrapSeconds(c._hours * 3600 + c._minutes * 60 + c._seconds + stepSeconds))

_adjustTimeByStep(c, stepSeconds, t) ==
  LET n == AdjustedTime(c, stepSeconds)
      newValue == formatTime(n.hours, n.minutes, n.seconds)
  IN IF _isWithinBounds(c, newValue)
     THEN _setTimeValue(c, n.hours, n.minutes, n.seconds, t)
     ELSE [c EXCEPT !.rejected = TRUE]

Keys == {"ArrowUp", "ArrowRight", "ArrowDown", "ArrowLeft", "Enter"}

\* this.step || 60
StepOrDefault(c) == IF c.step = 0 THEN 60 ELSE c.step

\* _onKeyDown stepping down by the default step whatever step is set.
_onKeyDown_DownStepsDefault(c, key, t) ==
  IF ~_isInteractive(c) \/ ~c._focused THEN c
  ELSE IF key \in {"ArrowUp", "ArrowRight"}
  THEN [_adjustTimeByStep(c, StepOrDefault(c), t) EXCEPT !.prevented = TRUE]
  ELSE IF key \in {"ArrowDown", "ArrowLeft"}
  THEN [_adjustTimeByStep(c, 0 - 60, t) EXCEPT !.prevented = TRUE]
  ELSE c

_onKeyDown(c, key, t) ==
  IF ~_isInteractive(c) \/ ~c._focused THEN c
  ELSE IF key \in {"ArrowUp", "ArrowRight"}
  THEN [_adjustTimeByStep(c, StepOrDefault(c), t) EXCEPT !.prevented = TRUE]
  ELSE IF key \in {"ArrowDown", "ArrowLeft"}
  THEN [_adjustTimeByStep(c, 0 - StepOrDefault(c), t)
          EXCEPT !.prevented = TRUE]
  ELSE c

\* Math.round(angle / 6) % 60 for an angle in whole degrees.
AngleToSixtieth(angle) == ((angle + 3) \div 6) % 60

\* Math.round(angle / 30) % 12 for an angle in whole degrees.
AngleToHour(angle) == ((angle + 15) \div 30) % 12

\* _handleFaceClick cutting angle / 6 down instead of rounding it.
_handleFaceClick_FloorsAngle(c, angle, t) ==
  LET minutes == (angle \div 6) % 60
      newValue == formatTime(c._hours, minutes, 0)
  IN IF _isWithinBounds(c, newValue)
     THEN _setTimeValue(c, c._hours, minutes, 0, t)
     ELSE [c EXCEPT !.rejected = TRUE]

_handleFaceClick(c, angle, t) ==
  LET minutes == AngleToSixtieth(angle)
      newValue == formatTime(c._hours, minutes, 0)
  IN IF _isWithinBounds(c, newValue)
     THEN _setTimeValue(c, c._hours, minutes, 0, t)
     ELSE [c EXCEPT !.rejected = TRUE]

_onFaceMouseDown(c, angle, t) ==
  IF ~_isInteractive(c) THEN c ELSE _handleFaceClick(c, angle, t)

_startDrag(c, hand) == [c EXCEPT !._draggingHand = hand]

_onMouseDown(c, hand) ==
  IF ~_isInteractive(c) THEN c
  ELSE [_startDrag(c, hand) EXCEPT !.prevented = TRUE]

\* The hours _handleDrag computes for the hour hand.
DragHours(c, angle) ==
  LET hourValue == AngleToHour(angle)
      isPM == c._hours >= 12
      h1 == hourValue + (IF isPM THEN 12 ELSE 0)
      h2 == IF h1 = 24 THEN 12 ELSE h1
  IN IF h2 = 0 /\ isPM THEN 12 ELSE h2

\* The time _handleDrag computes for the hand being dragged.
DragTime(c, angle) ==
  Time(IF c._draggingHand = "hour" THEN DragHours(c, angle) ELSE c._hours,
       IF c._draggingHand = "minute" THEN AngleToSixtieth(angle)
       ELSE c._minutes,
       IF c._draggingHand = "second" THEN AngleToSixtieth(angle)
       ELSE c._seconds)

\* _handleDrag putting the seconds to 0 when the minute hand moves.
_handleDrag_MinuteClearsSeconds(c, angle) ==
  LET n == DragTime(c, angle)
      newValue == formatTime(n.hours, n.minutes, n.seconds)
  IN IF _isWithinBounds(c, newValue)
     THEN [c EXCEPT !._hours = n.hours, !._minutes = n.minutes,
                    !._seconds = IF c._draggingHand = "minute" THEN 0
                                 ELSE n.seconds]
     ELSE [c EXCEPT !.rejected = TRUE]

_handleDrag(c, angle) ==
  LET n == DragTime(c, angle)
      newValue == formatTime(n.hours, n.minutes, n.seconds)
  IN IF _isWithinBounds(c, newValue)
     THEN [c EXCEPT !._hours = n.hours, !._minutes = n.minutes,
                    !._seconds = n.seconds]
     ELSE [c EXCEPT !.rejected = TRUE]

_onMouseMove(c, angle) ==
  IF c._draggingHand = NoHand THEN c ELSE _handleDrag(c, angle)

\* _endDrag dropping the hand without committing the value.
_endDrag_KeepsValue(c, t) ==
  IF c._draggingHand # NoHand
  THEN [c EXCEPT !._draggingHand = NoHand]
  ELSE c

_endDrag(c, t) ==
  IF c._draggingHand # NoHand
  THEN _setTimeValue([c EXCEPT !._draggingHand = NoHand],
                     c._hours, c._minutes, c._seconds, t)
  ELSE c

_onMouseUp(c, t) == IF c._draggingHand # NoHand THEN _endDrag(c, t) ELSE c

\* The icons carrying the class 'active': the sun (AM) and the moon (PM).
_renderAmPmIndicators(c) ==
  LET isAM == c._hours < 12
  IN [sun |-> isAM, moon |-> ~isAM]

\* _toggleAmPm without the return for the half the clock is in.
_toggleAmPm_AlwaysToggles(c, toAM, t) ==
  IF ~_isInteractive(c) THEN c
  ELSE LET h0 == IF toAM THEN c._hours - 12 ELSE c._hours + 12
           h1 == IF h0 < 0 THEN h0 + 24 ELSE h0
           newHours == IF h1 >= 24 THEN h1 - 24 ELSE h1
           newValue == formatTime(newHours, c._minutes, c._seconds)
       IN IF _isWithinBounds(c, newValue)
          THEN _setTimeValue(c, newHours, c._minutes, c._seconds, t)
          ELSE [c EXCEPT !.rejected = TRUE]

_toggleAmPm(c, toAM, t) ==
  IF ~_isInteractive(c) THEN c
  ELSE IF toAM = (c._hours < 12) THEN c
  ELSE LET h0 == IF toAM THEN c._hours - 12 ELSE c._hours + 12
           h1 == IF h0 < 0 THEN h0 + 24 ELSE h0
           newHours == IF h1 >= 24 THEN h1 - 24 ELSE h1
           newValue == formatTime(newHours, c._minutes, c._seconds)
       IN IF _isWithinBounds(c, newValue)
          THEN _setTimeValue(c, newHours, c._minutes, c._seconds, t)
          ELSE [c EXCEPT !.rejected = TRUE]

\* getValue counting the current running period only.
getValue_IgnoresAccumulated(c, t) ==
  IF ~c.running THEN c.value
  ELSE LET d == MsToTime(NormalizeMs(c._baseTimeMs + t - c._runStartTimestamp))
       IN formatTime(d.hours, d.minutes, d.seconds)

getValue(c, t) ==
  IF ~c.running THEN c.value
  ELSE LET d == MsToTime(NormalizeMs(c._baseTimeMs + ElapsedMs(c, t)))
       IN formatTime(d.hours, d.minutes, d.seconds)

connectedCallback(c, t) ==
  LET w == WallClock(t)
      c1 == IF ~Falsy(c.value) THEN _parseAndSetTime(c, c.value)
            ELSE [c EXCEPT !._hours = w.hours, !._minutes = w.minutes,
                           !._seconds = w.seconds]
  IN IF c1.running THEN _startAnimation(c1, t) ELSE c1

disconnectedCallback(c) == _stopAnimation(c)

(***************************************************************************)
(* Steps.  Every step is one task of the event loop: a handler, then the   *)
(* update with the observers.  hist records the step taken and what it did *)
(* to its surroundings; lastValid and ranMs observe the run: the last      *)
(* string assigned to value that parseTime accepts, and the time the clock *)
(* has been running since value was last assigned (-1 when the string      *)
(* assigned last is no time).                                              *)
(***************************************************************************)
Commit(this, op) == \E c \in {this} :
  /\ value' = c.value
  /\ running' = c.running
  /\ min' = c.min
  /\ max' = c.max
  /\ disabled' = c.disabled
  /\ readonly' = c.readonly
  /\ adjustable' = c.adjustable
  /\ step' = c.step
  /\ label' = c.label
  /\ _hours' = c._hours
  /\ _minutes' = c._minutes
  /\ _seconds' = c._seconds
  /\ _animationFrameId' = c._animationFrameId
  /\ _draggingHand' = c._draggingHand
  /\ _focused' = c._focused
  /\ _baseTimeMs' = c._baseTimeMs
  /\ _runStartTimestamp' = c._runStartTimestamp
  /\ _accumulatedMs' = c._accumulatedMs
  /\ frames' = c.frames
  /\ hist' = [op |-> op, fired |-> c.fired, prevented |-> c.prevented,
              rejected |-> c.rejected]
  /\ lastValid' = IF c.assigned /\ ~parseTime(c.value).none
                  THEN c.value ELSE lastValid
  /\ ranMs' = IF c.assigned
              THEN (IF parseTime(c.value).none THEN -1 ELSE 0)
              ELSE ranMs
  /\ UNCHANGED call

\* call is the last call of a static method of the class: the method, its
\* arguments and what it returned; NoCall before the first one.
NoCall == [fn |-> "none", arg |-> <<>>, ret |-> <<>>]

\* The fields of the element and what is recorded of its run.
element ==
  <<value, running, min, max, disabled, readonly, adjustable, step,
    label, _hours, _minutes, _seconds, _animationFrameId, _draggingHand, _focused,
    _baseTimeMs, _runStartTimestamp, _accumulatedMs, connected, frames, now,
    hist, lastValid, ranMs, ticks, keys>>

\* Clock.parseTime(timeString)
ParseTimeCall(timeString) ==
  /\ call' = [fn |-> "parseTime", arg |-> timeString,
              ret |-> parseTime(timeString)]
  /\ UNCHANGED element

\* Clock.formatTime(hours, minutes, seconds)
FormatTimeCall(hours, minutes, seconds) ==
  /\ call' = [fn |-> "formatTime", arg |-> <<hours, minutes, seconds>>,
              ret |-> formatTime(hours, minutes, seconds)]
  /\ UNCHANGED element

\* Clock.formatTime(hours, minutes): seconds = 0 by the default parameter.
FormatTimeCall2(hours, minutes) ==
  /\ call' = [fn |-> "formatTime", arg |-> <<hours, minutes>>,
              ret |-> formatTime(hours, minutes, 0)]
  /\ UNCHANGED element

\* this._isWithinBounds(timeString), with the min and max it read.
IsWithinBoundsCall(timeString) ==
  /\ call' = [fn |-> "_isWithinBounds", arg |-> <<min, max, timeString>>,
              ret |-> _isWithinBounds(This, timeString)]
  /\ UNCHANGED element

\* A handler run at the current wall clock, followed by the update.
Handle(c, op) ==
  /\ Commit(Update(This, c, now), op)
  /\ UNCHANGED <<now, ticks, connected>>

\* clock.value = v, and setValue(v)
SetValue(v) ==
  /\ Handle([This EXCEPT !.value = v, !.assigned = TRUE], "SetValue")
  /\ UNCHANGED keys

\* clock.running = b
SetRunning(b) == Handle([This EXCEPT !.running = b], "SetRunning") /\ UNCHANGED keys

SetMin(m) == Handle([This EXCEPT !.min = m], "SetMin") /\ UNCHANGED keys

SetMax(m) == Handle([This EXCEPT !.max = m], "SetMax") /\ UNCHANGED keys

SetStep(n) == Handle([This EXCEPT !.step = n], "SetStep") /\ UNCHANGED keys

SetDisabled(b) == Handle([This EXCEPT !.disabled = b], "SetDisabled") /\ UNCHANGED keys

SetReadonly(b) == Handle([This EXCEPT !.readonly = b], "SetReadonly") /\ UNCHANGED keys

SetAdjustable(b) == Handle([This EXCEPT !.adjustable = b], "SetAdjustable") /\ UNCHANGED keys

SetLabel(l) == Handle([This EXCEPT !.label = l], "SetLabel") /\ UNCHANGED keys

Connect ==
  /\ ~connected
  /\ connected' = TRUE
  /\ Commit(Update(This, connectedCallback(This, now), now), "Connect")
  /\ UNCHANGED <<now, ticks, keys>>

Disconnect ==
  /\ connected
  /\ connected' = FALSE
  /\ Commit(Update(This, disconnectedCallback(This), now), "Disconnect")
  /\ UNCHANGED <<now, ticks, keys>>

\* The events reach the element while it is in the document.
Focus ==
  /\ connected
  /\ Handle([This EXCEPT !._focused = TRUE], "Focus")
  /\ UNCHANGED keys

Blur ==
  /\ connected
  /\ Handle([This EXCEPT !._focused = FALSE], "Blur")
  /\ UNCHANGED keys

\* A keydown event; at most MaxKeys of them are delivered.
KeyDown(key) ==
  /\ connected
  /\ keys < MaxKeys
  /\ keys' = keys + 1
  /\ Handle(_onKeyDown(This, key, now), key)

FaceMouseDown(angle) ==
  /\ connected
  /\ Handle(_onFaceMouseDown(This, angle, now), "FaceMouseDown")
  /\ UNCHANGED keys

MouseDown(hand) ==
  /\ connected
  /\ Handle(_onMouseDown(This, hand), "MouseDown")
  /\ UNCHANGED keys

MouseMove(angle) ==
  /\ connected
  /\ Handle(_onMouseMove(This, angle), "MouseMove")
  /\ UNCHANGED keys

MouseUp ==
  /\ connected
  /\ Handle(_onMouseUp(This, now), "MouseUp")
  /\ UNCHANGED keys

\* A click on the sun (toAM) or moon icon; the listener is rendered only
\* while the clock is interactive.
AmPmClick(toAM) ==
  /\ connected
  /\ Handle(IF _isInteractive(This) THEN _toggleAmPm(This, toAM, now)
            ELSE This, "AmPmClick")
  /\ UNCHANGED keys

\* A pending animation frame callback runs.
Frame ==
  \E id \in frames :
    /\ Handle(animate([This EXCEPT !.frames = @ \ {id}], now), "Frame")
    /\ UNCHANGED keys

\* Wall-clock time passes.
Tick(d) ==
  /\ ticks < MaxTicks
  /\ now' = now + d
  /\ ticks' = ticks + 1
  /\ ranMs' = IF running /\ ranMs >= 0 THEN ranMs + d ELSE ranMs
  /\ hist' = [op |-> "Tick", fired |-> 0, prevented |-> FALSE,
              rejected |-> FALSE]
  /\ UNCHANGED <<value, running, min, max, disabled, readonly, adjustable,
                 step, label, _hours, _minutes, _seconds, _animationFrameId,
                 _draggingHand, _focused, _baseTimeMs, _runStartTimestamp,
                 _accumulatedMs, connected, frames, lastValid, keys,
                 call>>

\* The state after construction with adjustable off.
Init_NotAdjustable ==
  /\ value = NULL
  /\ running = FALSE
  /\ min = NULL
  /\ max = NULL
  /\ disabled = FALSE
  /\ readonly = FALSE
  /\ adjustable = FALSE
  /\ step = 60
  /\ label = Tempty
  /\ _hours = 0
  /\ _minutes = 0
  /\ _seconds = 0
  /\ _animationFrameId = NoFrame
  /\ _draggingHand = NoHand
  /\ _focused = FALSE
  /\ _baseTimeMs = 0
  /\ _runStartTimestamp = NullTs
  /\ _accumulatedMs = 0
  /\ connected = FALSE
  /\ frames = {}
  /\ now = Now0
  /\ hist = [op |-> "new", fired |-> 0, prevented |-> FALSE,
             rejected |-> FALSE]
  /\ lastValid = NULL
  /\ ranMs = -1
  /\ ticks = 0
  /\ keys = 0
  /\ call = NoCall

\* The state after construction: the property defaults and the constructor.
Init ==
  /\ value = NULL
  /\ running = FALSE
  /\ min = NULL
  /\ max = NULL
  /\ disabled = FALSE
  /\ readonly = FALSE
  /\ adjustable = TRUE
  /\ step = 60
  /\ label = Tempty
  /\ _hours = 0
  /\ _minutes = 0
  /\ _seconds = 0
  /\ _animationFrameId = NoFrame
  /\ _draggingHand = NoHand
  /\ _focused = FALSE
  /\ _baseTimeMs = 0
  /\ _runStartTimestamp = NullTs
  /\ _accumulatedMs = 0
  /\ connected = FALSE
  /\ frames = {}
  /\ now = Now0
  /\ hist = [op |-> "new", fired |-> 0, prevented |-> FALSE,
             rejected |-> FALSE]
  /\ lastValid = NULL
  /\ ranMs = -1
  /\ ticks = 0
  /\ keys = 0
  /\ call = NoCall

(***************************************************************************)
(* The running clock: value assignments, running toggles, wall-clock time, *)
(* animation frames and user adjustments.                                  *)
(***************************************************************************)
RunValues == {NULL, Tabc, T120000, T235959}

NextRun ==
  \/ Connect
  \/ \E v \in RunValues : SetValue(v)
  \/ \E b \in BOOLEAN : SetRunning(b)
  \/ \E d \in TickDeltas : Tick(d)
  \/ Frame
  \/ FaceMouseDown(0)

SpecRun == Init /\ [][NextRun]_vars

(***************************************************************************)
(* Claims on the running clock                                             *)
(***************************************************************************)
\* The HH:mm:ss string of a number of milliseconds, taken modulo 24 hours
\* and cut to whole seconds.
ClockString(ms) ==
  LET sec == (ms % dayMs) \div 1000
  IN formatTime(sec \div 3600, (sec % 3600) \div 60, sec % 60)

\* s is a time of day written HH:mm:ss, 00:00:00 to 23:59:59.
IsTimeOfDay(s) ==
  /\ Len(s) = 8
  /\ \A i \in {1, 2, 4, 5, 7, 8} : IsDigit(s[i])
  /\ s[3] = ":" /\ s[6] = ":"
  /\ DigitVal(s[1]) * 10 + DigitVal(s[2]) <= 23
  /\ DigitVal(s[4]) <= 5
  /\ DigitVal(s[7]) <= 5

\* The milliseconds from midnight of a time string.
StringMs(s) ==
  LET p == parseTime(s) IN TimeMs(p.hours, p.minutes, p.seconds)

\* C1: getValue() returns value unchanged while running is false; while
\* running is true it returns the time of day of (base time + accumulated ms
\* + (now - run start timestamp)) modulo 24 hours, cut to whole seconds,
\* where the base time is the last valid value that was set; that string is
\* always a time between 00:00:00 and 23:59:59.
C1_GetValue ==
  /\ ~running => getValue(This, now) = value
  /\ running => IsTimeOfDay(getValue(This, now))
  /\ running /\ lastValid # NULL =>
       getValue(This, now) =
         ClockString(StringMs(lastValid) + _accumulatedMs
                     + (now - _runStartTimestamp))

\* A running clock that has run before and whose time has passed midnight.
C1_Witness ==
  /\ running
  /\ lastValid = T235959
  /\ _accumulatedMs > 0
  /\ now > _runStartTimestamp
  /\ getValue(This, now)[1] = "0"

\* C2: after value is set to V, getValue() read while running is V plus the
\* time the clock has been running since V was set, modulo 24 hours; time
\* that passes while running is false is not counted.
C2_Accumulates ==
  running /\ ranMs >= 0 =>
    getValue(This, now) = ClockString(StringMs(lastValid) + ranMs)

\* C3: after setValue(v) with a valid time string v and the value observer,
\* value equals v and _accumulatedMs is 0, whatever the state before.
C3_SetValueResets ==
  hist.op = "SetValue" /\ ~parseTime(value).none => _accumulatedMs = 0

\* C10: once the observers have run, _runStartTimestamp is non-null exactly
\* when running is true; a step that switches running from true to false
\* adds (now - _runStartTimestamp) to _accumulatedMs and sets
\* _runStartTimestamp to null.
C10_RunStartTracksRunning ==
  /\ [](running <=> _runStartTimestamp # NullTs)
  /\ [][running /\ ~running' =>
          /\ _accumulatedMs' = _accumulatedMs + (now - _runStartTimestamp)
          /\ _runStartTimestamp' = NullTs]_vars

\* A clock stopped after it ran for some time, then adjusted by the user.
C10_Witness ==
  /\ ~running
  /\ hist.op = "SetRunning"
  /\ _accumulatedMs > 0
  /\ _runStartTimestamp = NullTs

\* C22: in every state where the clock is not running, no hand is dragged
\* and value is a valid time string, the displayed triple is
\* parseTime(value), after any number of starts and stops of the clock.
C22_DisplayDerivedFromValue ==
  ~running /\ _draggingHand = NoHand /\ IsTimeOfDay(value) =>
    Time(_hours, _minutes, _seconds) = parseTime(value)

\* The display of a clock that ran is the time the clock stopped at: the
\* last frame before the stop showed the second of the stop.
DisplayCurrent ==
  _accumulatedMs > 0 =>
    Time(_hours, _minutes, _seconds)
      = MsToTime((_baseTimeMs + _accumulatedMs) % dayMs)

\* C28: starting the clock does not make the displayed time jump: when
\* running is set from false to true on a connected clock, the time
\* displayed after the start is the time displayed before it (no time
\* passes within the step), with a value set, after earlier starts and
\* stops, and with value null or empty where the wall-clock time was shown.
C28_StartWithoutJump ==
  [][connected /\ ~running /\ running' /\ DisplayCurrent =>
       UNCHANGED <<_hours, _minutes, _seconds>>]_vars

\* The displayed triple is the reading of the wall clock at time t.
ShowsWallClock(t) ==
  LET w == WallClock(t)
  IN _hours' = w.hours /\ _minutes' = w.minutes /\ _seconds' = w.seconds

\* The clock has no value, stands still and no hand is being dragged.
StaticCase ==
  /\ connected
  /\ Falsy(value)
  /\ ~running
  /\ _draggingHand = NoHand

\* C11: a connected clock whose value is null or empty and that is not
\* running shows a reading of the wall clock: the one taken when the
\* element connects, or the one taken when value is cleared from a time set
\* before; and the displayed triple stays as it is while the clock stays in
\* that condition.
C11_StaticWallClock ==
  [][/\ hist'.op = "Connect" /\ Falsy(value) /\ ~running
          => ShowsWallClock(now)
     /\ hist'.op = "SetValue" /\ connected /\ ~running
          /\ _draggingHand = NoHand /\ ~Falsy(value) /\ Falsy(value')
          => ShowsWallClock(now)
     /\ StaticCase /\ StaticCase' =>
          UNCHANGED <<_hours, _minutes, _seconds>>]_vars

(***************************************************************************)
(* Keyboard stepping: a connected, focused clock, value assignments, the   *)
(* step property and keydown events.                                       *)
(***************************************************************************)
KeyValues == {T120000, T235900, T000000, T256161}

\* 0 (the default of 60 applies), a minute, a day, two days.
KeySteps == {0, 60, 86400, 172800}

NextKeys ==
  \/ Connect
  \/ Focus
  \/ \E v \in KeyValues : SetValue(v)
  \/ \E n \in KeySteps : SetStep(n)
  \/ \E k \in Keys : KeyDown(k)

SpecKeys == Init /\ [][NextKeys]_vars

(***************************************************************************)
(* Claims on keyboard stepping                                             *)
(***************************************************************************)
\* The displayed time in seconds from midnight.
DisplayedSeconds == _hours * 3600 + _minutes * 60 + _seconds

\* The displayed triple is a time of day.
DisplayValid ==
  /\ _hours \in 0..23
  /\ _minutes \in 0..59
  /\ _seconds \in 0..59

\* The HH:mm:ss string of a number of seconds taken modulo 24 hours.
SecondsString(sec) ==
  LET r == sec % daySeconds
  IN formatTime(r \div 3600, (r % 3600) \div 60, r % 60)

\* The step a key press applies: the step property, 60 when it is 0.
EffectiveStep == IF step = 0 THEN 60 ELSE step

\* The clock takes keyboard steps, and nothing else decides the result.
KeyStepCase ==
  /\ adjustable /\ ~disabled /\ ~readonly /\ _focused
  /\ ~running
  /\ Falsy(min) /\ Falsy(max)
  /\ DisplayValid
  /\ step >= 0

\* C4: on an interactive, focused clock that is not running and has no
\* min/max, ArrowUp or ArrowRight sets value to the time (t + step) mod 86400
\* seconds and ArrowDown or ArrowLeft to (t - step) mod 86400, for every
\* displayed time t and every positive step (60 when step is 0).
C4_KeyStepWraps ==
  [][/\ (KeyDown("ArrowUp") \/ KeyDown("ArrowRight")) /\ KeyStepCase =>
          value' = SecondsString(DisplayedSeconds + EffectiveStep)
     /\ (KeyDown("ArrowDown") \/ KeyDown("ArrowLeft")) /\ KeyStepCase =>
          value' = SecondsString(DisplayedSeconds - EffectiveStep)]_vars

\* C9: in every reachable state the displayed triple is a time of day:
\* _hours in 0..23, _minutes in 0..59 and _seconds in 0..59, whatever strings
\* were assigned to value and whatever the step of the keyboard steps.
C9_DisplayAlwaysValid == DisplayValid

(***************************************************************************)
(* Interactivity flags and the keyboard: the flags and the focus change    *)
(* between key presses.                                                    *)
(***************************************************************************)
NextFlags ==
  \/ Connect
  \/ Focus
  \/ Blur
  \/ SetValue(T235900)
  \/ \E b \in BOOLEAN : SetAdjustable(b)
  \/ \E b \in BOOLEAN : SetDisabled(b)
  \/ \E b \in BOOLEAN : SetReadonly(b)
  \/ SetLabel(<<"T", "i", "m", "e">>)
  \/ \E k \in Keys : KeyDown(k)

SpecFlags == Init /\ [][NextFlags]_vars

\* C18: a newly created clock has value null, running false, adjustable
\* true, step 60, disabled false, readonly false, label empty, min null,
\* max null, no drag in progress, accumulated running time 0 and no run
\* start timestamp.
C18_DefaultState ==
  hist.op = "new" =>
    /\ value = NULL
    /\ ~running
    /\ adjustable
    /\ step = 60
    /\ ~disabled
    /\ ~readonly
    /\ label = <<>>
    /\ min = NULL
    /\ max = NULL
    /\ _draggingHand = NoHand
    /\ _accumulatedMs = 0
    /\ _runStartTimestamp = NullTs

\* The clock as constructed, before anything has happened to it.
C18_Witness ==
  /\ hist.op = "new"
  /\ ~connected
  /\ keys = 0 /\ ticks = 0
  /\ call = NoCall

\* What a key press must leave alone when the clock does not take it.
KeyIgnored ==
  /\ UNCHANGED <<value, _hours, _minutes, _seconds>>
  /\ UNCHANGED <<_baseTimeMs, _accumulatedMs, _runStartTimestamp>>
  /\ hist'.fired = 0
  /\ ~hist'.prevented

\* C8: the clock is interactive exactly when adjustable is set and disabled
\* and readonly are not; a keydown of any key while the clock is not
\* interactive or not focused leaves value, the displayed triple and the
\* running accumulator unchanged, fires no value-changed event and does not
\* call preventDefault on the event.
C8_KeyDownNeedsInteractiveFocus ==
  /\ [](_isInteractive(This) <=> (adjustable /\ ~disabled /\ ~readonly))
  /\ [][\A k \in Keys :
         KeyDown(k) /\ ~(adjustable /\ ~disabled /\ ~readonly /\ _focused)
           => KeyIgnored]_vars

\* An arrow key has been pressed on a focused clock that is readonly, and
\* the event was left alone.
C8_Witness ==
  /\ hist.op = "ArrowUp"
  /\ ~hist.prevented
  /\ _focused /\ adjustable /\ ~disabled /\ readonly
  /\ value = T235900

(***************************************************************************)
(* Interactivity flags and the pointer: hand drags, face clicks and AM/PM  *)
(* clicks while the flags change.                                          *)
(***************************************************************************)
\* Pointer positions, as the angle from 12 o'clock in whole degrees.
Angles == {90, 357}

NextPointer ==
  \/ Connect
  \/ SetValue(T120000)
  \/ \E b \in BOOLEAN : SetDisabled(b)
  \/ \E h \in Hands : MouseDown(h)
  \/ \E a \in Angles : MouseMove(a)
  \/ MouseUp
  \/ \E a \in Angles : FaceMouseDown(a)
  \/ \E b \in BOOLEAN : AmPmClick(b)

SpecPointer == Init /\ [][NextPointer]_vars

PointerIgnored ==
  /\ UNCHANGED <<value, _hours, _minutes, _seconds, _draggingHand>>
  /\ UNCHANGED <<_baseTimeMs, _accumulatedMs, _runStartTimestamp>>
  /\ hist'.fired = 0

\* C19: a hand press while the clock is interactive starts a drag of that
\* hand; during the drag, moves change the displayed triple only, never
\* value, and fire no value-changed; the release ends the drag and sets
\* value to formatTime of the displayed triple; moves and releases with no
\* drag in progress change nothing.
C19_DragProtocol ==
  [][/\ hist'.op = "MouseDown" /\ adjustable /\ ~disabled /\ ~readonly =>
          \A h \in Hands : MouseDown(h) =>
            _draggingHand' = h /\ UNCHANGED <<value, _hours, _minutes, _seconds>>
     /\ hist'.op = "MouseMove" /\ _draggingHand # NoHand =>
          /\ UNCHANGED <<value, _draggingHand>>
          /\ UNCHANGED <<_baseTimeMs, _accumulatedMs, _runStartTimestamp>>
          /\ hist'.fired = 0
     /\ hist'.op = "MouseUp" /\ _draggingHand # NoHand =>
          /\ _draggingHand' = NoHand
          /\ value' = formatTime(_hours, _minutes, _seconds)
          /\ UNCHANGED <<_hours, _minutes, _seconds>>
     /\ hist'.op \in {"MouseMove", "MouseUp"} /\ _draggingHand = NoHand =>
          PointerIgnored]_vars

\* The hour hand has been dragged from 12 to 3 o'clock and released.
C19_Witness ==
  /\ hist.op = "MouseUp"
  /\ hist.fired = 1
  /\ _draggingHand = NoHand
  /\ value = <<"1", "5", ":", "0", "0", ":", "0", "0">>
  /\ _hours = 15 /\ _minutes = 0 /\ _seconds = 0

\* Math.round(angle / 6) mod 60 of an angle in whole degrees.
RoundedSixtieth(angle) == ((10 * angle + 30) \div 60) % 60

\* The decimal digits of n < 1000, with a leading zero when there is one.
Padded(n) ==
  IF n < 10 THEN <<"0", DigitChar(n)>>
  ELSE IF n < 100 THEN <<DigitChar(n \div 10), DigitChar(n % 10)>>
  ELSE <<DigitChar(n \div 100), DigitChar((n \div 10) % 10),
         DigitChar(n % 10)>>

PointerEvent ==
  \/ \E h \in Hands : MouseDown(h)
  \/ \E a \in Angles : MouseMove(a)
  \/ MouseUp
  \/ \E a \in Angles : FaceMouseDown(a)
  \/ \E b \in BOOLEAN : AmPmClick(b)

\* C7: while the clock is not interactive (adjustable unset, or disabled, or
\* readonly), no pointer event - hand press, drag move, release, face click,
\* AM/PM click - changes value or the displayed time, the move and the
\* release of a drag started while the clock was interactive included.
C7_PointerNeedsInteractive ==
  [][PointerEvent /\ ~(adjustable /\ ~disabled /\ ~readonly)
       => UNCHANGED <<value, _hours, _minutes, _seconds>>]_vars

(***************************************************************************)
(* Bounds: value, min and max are assigned before the element connects;    *)
(* then come the user's adjustments.                                       *)
(***************************************************************************)
BoundValues == {T170000}

MinValues == {T0830}

MaxValues == {T170000}

Configure ==
  /\ ~connected
  /\ \/ \E v \in BoundValues : SetValue(v)
     \/ \E m \in MinValues : SetMin(m)
     \/ \E m \in MaxValues : SetMax(m)

UserAdjusts ==
  \/ Focus
  \/ \E k \in {"ArrowUp", "ArrowDown"} : KeyDown(k)
  \/ \E a \in Angles : FaceMouseDown(a)
  \/ MouseDown("minute")
  \/ \E a \in Angles : MouseMove(a)
  \/ MouseUp
  \/ \E b \in BOOLEAN : AmPmClick(b)

NextBounds == Configure \/ Connect \/ UserAdjusts

SpecBounds == Init /\ [][NextBounds]_vars

\* The time of day tm lies below a min that is a time, or above a max that
\* is one.
OutOfBounds(tm) ==
  LET seconds == tm.hours * 3600 + tm.minutes * 60 + tm.seconds
      minTime == parseTime(min)
      maxTime == parseTime(max)
  IN \/ /\ ~minTime.none
        /\ seconds < minTime.hours * 3600 + minTime.minutes * 60
                       + minTime.seconds
     \/ /\ ~maxTime.none
        /\ seconds > maxTime.hours * 3600 + maxTime.minutes * 60
                       + maxTime.seconds

\* What a rejected adjustment must leave alone.
Rejected ==
  /\ UNCHANGED <<value, _hours, _minutes, _seconds>>
  /\ UNCHANGED <<_baseTimeMs, _accumulatedMs>>
  /\ hist'.fired = 0

\* The times a keyboard step, a face click and an AM/PM click aim at.
KeyTarget(sign) ==
  SecondsToTime((DisplayedSeconds + sign * EffectiveStep) % daySeconds)

FaceTarget(angle) == Time(_hours, AngleToSixtieth(angle), 0)

AmPmTarget == Time((_hours + 12) % 24, _minutes, _seconds)

\* C26: a click on the face of an interactive clock sets the minutes to
\* round(angle/6) mod 60, the seconds to 0 and keeps the hours: when that
\* time is within the bounds, value becomes it, written HH:mm:ss; when it
\* is not, value and the displayed time stay; no drag is started.
C26_FaceClickSetsMinutes ==
  [][hist'.op = "FaceMouseDown" /\ adjustable /\ ~disabled /\ ~readonly =>
       \A a \in Angles : FaceMouseDown(a) =>
         /\ _draggingHand' = _draggingHand
         /\ IF OutOfBounds(Time(_hours, RoundedSixtieth(a), 0))
            THEN UNCHANGED <<value, _hours, _minutes, _seconds>>
            ELSE /\ value' = Padded(_hours) \o <<":">>
                               \o Padded(RoundedSixtieth(a)) \o <<":", "0", "0">>
                 /\ _hours' = _hours
                 /\ _minutes' = RoundedSixtieth(a)
                 /\ _seconds' = 0]_vars

C26_Witness ==
  /\ hist.op = "FaceMouseDown"
  /\ hist.fired = 1
  /\ value = <<"1", "6", ":", "1", "5", ":", "0", "0">>
  /\ _hours = 16 /\ _minutes = 15 /\ _seconds = 0
  /\ _draggingHand = NoHand

\* C5: a keyboard step, a face click or an AM/PM toggle whose target time
\* is below a valid min or above a valid max leaves value, the displayed
\* triple, the base time and the accumulated time unchanged and fires no
\* value-changed event; a drag move to a position out of the bounds leaves
\* the displayed triple unchanged.
C5_OutOfBoundsRejected ==
  [][/\ hist'.op \in {"ArrowUp", "ArrowRight"}
          /\ OutOfBounds(KeyTarget(1)) => Rejected
     /\ hist'.op \in {"ArrowDown", "ArrowLeft"}
          /\ OutOfBounds(KeyTarget(-1)) => Rejected
     /\ hist'.op = "FaceMouseDown" =>
          \A a \in Angles :
            FaceMouseDown(a) /\ OutOfBounds(FaceTarget(a)) => Rejected
     /\ hist'.op = "AmPmClick" =>
          \A b \in BOOLEAN :
            AmPmClick(b) /\ b # (_hours < 12) /\ OutOfBounds(AmPmTarget)
              => Rejected
     /\ hist'.op = "MouseMove" /\ _draggingHand # NoHand =>
          \A a \in Angles :
            MouseMove(a) /\ OutOfBounds(DragTime(This, a))
              => UNCHANGED <<_hours, _minutes, _seconds>>]_vars

\* ArrowUp on a focused clock that shows its max has been turned down.
C5_Witness ==
  /\ hist.op = "ArrowUp"
  /\ hist.prevented
  /\ hist.rejected
  /\ value = T170000 /\ max = T170000
  /\ _hours = 17 /\ _minutes = 0 /\ _seconds = 0

(***************************************************************************)
(* Bounds and the running clock: value, min and max are assigned before    *)
(* the element connects, with value between min and max; the clock is      *)
(* started and stopped, its frames run, and the user adjusts the time.     *)
(***************************************************************************)
\* min and max are times with min <= max, and value is a time between them.
ValueWithinBounds ==
  LET minTime == parseTime(min)
      maxTime == parseTime(max)
      time == parseTime(value)
  IN /\ ~minTime.none /\ ~maxTime.none /\ ~time.none
     /\ TimeMinutes60(minTime) <= TimeMinutes60(time)
     /\ TimeMinutes60(time) <= TimeMinutes60(maxTime)

\* The element is put in the document once its value lies in the bounds.
ConnectConfigured == ValueWithinBounds /\ Connect

NextBoundsRun ==
  \/ Configure
  \/ ConnectConfigured
  \/ \E b \in BOOLEAN : SetRunning(b)
  \/ Tick(1500)
  \/ Frame
  \/ Focus
  \/ \E k \in {"ArrowUp", "ArrowDown"} : KeyDown(k)
  \/ FaceMouseDown(357)
  \/ MouseDown("second")
  \/ MouseUp
  \/ \E b \in BOOLEAN : AmPmClick(b)

SpecBoundsRun == Init /\ [][NextBoundsRun]_vars

\* C6: if min and max are times with min <= max and value lies between
\* them, value still lies between them after every user interaction
\* (keyboard step, face click, hand drag with release, AM/PM toggle), start
\* or stop of the running clock and animation frame, as long as value, min
\* and max are not assigned by the program.  Here value lies in the bounds
\* when the element connects, and the program assigns none of the three
\* afterwards.
C6_ValueStaysWithinBounds == connected => ValueWithinBounds

(***************************************************************************)
(* Life cycle: the element enters and leaves the document while the clock  *)
(* is started and stopped, value is assigned, time passes and animation    *)
(* frames run.                                                             *)
(***************************************************************************)
LifeValues == {NULL, T120000}

\* The steps that request an animation frame, while fewer than MaxFrames
\* callbacks are pending.
FramesCapped == Cardinality(frames') <= MaxFrames

ConnectCapped == Connect /\ FramesCapped

SetRunningCapped(b) == SetRunning(b) /\ FramesCapped

NextLife ==
  \/ ConnectCapped
  \/ Disconnect
  \/ \E b \in BOOLEAN : SetRunningCapped(b)
  \/ \E v \in LifeValues : SetValue(v)
  \/ Tick(1500)
  \/ Frame

SpecLife == Init /\ [][NextLife]_vars

\* The time of day the running clock stands at, at wall-clock time t.
RunningTime(t) ==
  MsToTime((_baseTimeMs + _accumulatedMs + (t - _runStartTimestamp)) % dayMs)

\* C12: while running is true, after every animation frame the displayed
\* triple is the hours, minutes and seconds of (base time + accumulated ms
\* + (now - run start timestamp)) mod 24 hours, which is the time getValue()
\* returns at that instant, and the frame has scheduled the next one; a
\* connected running clock always has a frame pending.
C12_RunningAdvances ==
  /\ hist.op = "Frame" /\ running =>
       /\ Time(_hours, _minutes, _seconds) = RunningTime(now)
       /\ formatTime(_hours, _minutes, _seconds) = getValue(This, now)
       /\ _animationFrameId \in frames
  /\ running /\ connected => _animationFrameId \in frames

\* A frame of a clock started, stopped and started again, a second and a
\* half each time, from 12:00:00.
C12_Witness ==
  /\ hist.op = "Frame"
  /\ running /\ connected
  /\ _baseTimeMs = 43200000
  /\ _accumulatedMs = 1500
  /\ now - _runStartTimestamp = 1500
  /\ _seconds = 3

\* C23: at most one animation frame callback of the clock is pending at any
\* time, and _animationFrameId is the handle of that callback, so that
\* _stopAnimation cancels every redraw.
C23_OneAnimationLoop ==
  /\ Cardinality(frames) <= 1
  /\ frames # {} => frames = {_animationFrameId}

\* C13: after disconnectedCallback, whatever the connects and the running
\* and value assignments before it, no animation frame callback of the
\* clock remains scheduled.
C13_TeardownClearsFrames == hist.op = "Disconnect" => frames = {}

(***************************************************************************)
(* Value assignments: strings of every kind are assigned to value while    *)
(* the clock stands still or runs.                                         *)
(***************************************************************************)
ValueStrings ==
  {NULL, Tempty, Tabc, T0830, T120000, T235959, T000000, T256161}

NextValues ==
  \/ Connect
  \/ \E v \in ValueStrings : SetValue(v)
  \/ \E b \in BOOLEAN : SetRunning(b)
  \/ Tick(1500)
  \/ Frame

SpecValues == Init /\ [][NextValues]_vars

\* The number two digit characters write.
TwoDigits(a, b) == 10 * DigitVal(a) + DigitVal(b)

\* s has the form HH:mm or HH:mm:ss, with hours up to 23 and minutes and
\* seconds up to 59.
InRangeTimeString(s) ==
  /\ Len(s) \in {5, 8}
  /\ \A i \in 1..Len(s) : IF i \in {3, 6} THEN s[i] = ":" ELSE IsDigit(s[i])
  /\ TwoDigits(s[1], s[2]) <= 23
  /\ TwoDigits(s[4], s[5]) <= 59
  /\ Len(s) = 8 => TwoDigits(s[7], s[8]) <= 59

\* The displayed triple after the step is the one the string s writes.
ShowsString(s) ==
  /\ _hours' = TwoDigits(s[1], s[2])
  /\ _minutes' = TwoDigits(s[4], s[5])
  /\ _seconds' = IF Len(s) = 8 THEN TwoDigits(s[7], s[8]) ELSE 0

\* C15: when a string of the form HH:mm or HH:mm:ss with in-range fields
\* is assigned to value while the clock is not running, and the value
\* observer runs (the string differs from the current value), the
\* displayed triple becomes the fields of the string, with seconds 0 for
\* the form HH:mm, and value is the string as assigned.
C15_SetValueShowsTime ==
  [][hist'.op = "SetValue" /\ ~running =>
       \A v \in ValueStrings \ {NULL, value} :
         InRangeTimeString(v) /\ SetValue(v)
           => value' = v /\ ShowsString(v)]_vars

\* The string 08:30 has been assigned to a clock that is not running.
C15_Witness ==
  /\ hist.op = "SetValue"
  /\ hist.fired = 1
  /\ ~running
  /\ value = T0830
  /\ _hours = 8 /\ _minutes = 30 /\ _seconds = 0

(***************************************************************************)
(* The static methods parseTime and formatTime, called on their own.       *)
(***************************************************************************)
T143045 == <<"1", "4", ":", "3", "0", ":", "4", "5">>

Tinvalid == <<"i", "n", "v", "a", "l", "i", "d">>

T1430 == <<"1", "4", "3", "0">>

Tabcd == <<"a", "b", ":", "c", "d">>

T95 == <<"9", ":", "5">>

Tminus == <<"-", "1", ":", "0", "0">>

Tblank == <<" ", "7", ":", "0", "5", ":", "0", "9">>

Tfour == <<"1", ":", "2", ":", "3", ":", "4">>

Tcolon == <<":">>

ParseInputs ==
  {NULL, Tempty, Tabc, Tinvalid, T1430, Tabcd, T95, Tminus, Tblank, Tfour,
   Tcolon, T0830, T120000, T143045, T235959, T000000, T256161}

FormatHours == 0..24 \cup {100}

FormatMinutes == {0, 5, 30, 59, 60}

FormatSeconds == {0, 9, 45, 59, 123}

NextStatic ==
  \/ \E timeString \in ParseInputs : ParseTimeCall(timeString)
  \/ \E hours \in FormatHours, minutes \in FormatMinutes,
        seconds \in FormatSeconds : FormatTimeCall(hours, minutes, seconds)
  \/ \E hours \in FormatHours, minutes \in FormatMinutes :
        FormatTimeCall2(hours, minutes)

SpecStatic == Init /\ [][NextStatic]_vars

\* s has the shape of HH:mm or HH:mm:ss: digits in pairs, colons between.
TimeShaped(s) ==
  /\ Len(s) \in {5, 8}
  /\ \A i \in 1..Len(s) : IF i \in {3, 6} THEN s[i] = ":" ELSE IsDigit(s[i])

\* C16: parseTime returns null for null, for the empty string and for a
\* string without ':'; for a string HH:mm:ss it returns the three numbers
\* the string writes, and for HH:mm the two numbers with seconds 0.
C16_ParseTime ==
  call.fn = "parseTime" =>
    LET s == call.arg
        r == call.ret
    IN /\ s = NULL \/ (\A i \in 1..Len(s) : s[i] # ":") => r.none
       /\ s # NULL /\ TimeShaped(s) =>
            /\ ~r.none
            /\ r.hours = TwoDigits(s[1], s[2])
            /\ r.minutes = TwoDigits(s[4], s[5])
            /\ r.seconds = IF Len(s) = 8 THEN TwoDigits(s[7], s[8]) ELSE 0

\* parseTime has been called with 08:30.
C16_Witness ==
  /\ call.fn = "parseTime"
  /\ call.arg = T0830
  /\ call.ret = Time(8, 30, 0)

\* C17: formatTime returns the three numbers joined by ':', each padded
\* with zeros on the left to at least two digits, seconds being 0 when
\* omitted; for hours in 0..23 and minutes and seconds in 0..59 the result
\* is the 8-character string HH:mm:ss.
C17_FormatTime ==
  call.fn = "formatTime" =>
    LET hours == call.arg[1]
        minutes == call.arg[2]
        seconds == IF Len(call.arg) = 3 THEN call.arg[3] ELSE 0
    IN /\ call.ret = Padded(hours) \o <<":">> \o Padded(minutes) \o <<":">>
                       \o Padded(seconds)
       /\ hours \in 0..23 /\ minutes \in 0..59 /\ seconds \in 0..59
            => Len(call.ret) = 8 /\ call.ret[3] = ":" /\ call.ret[6] = ":"

\* formatTime has been called with 9 and 5 and no seconds.
C17_Witness ==
  /\ call.fn = "formatTime"
  /\ call.arg = <<9, 5>>
  /\ call.ret = <<"0", "9", ":", "0", "5", ":", "0", "0">>

(***************************************************************************)
(* Adjusting a running clock: the clock is started and stopped, and while  *)
(* it runs value is assigned and the user adjusts the time.                *)
(***************************************************************************)
\* The clock is in the document and runs.
RunningCase == connected /\ running

SetRunningConnected(b) == connected /\ SetRunning(b)

FocusRunning == RunningCase /\ Focus

SetValueRunning(v) == RunningCase /\ SetValue(v)

KeyDownRunning(key) == RunningCase /\ KeyDown(key)

FaceMouseDownRunning(angle) == RunningCase /\ FaceMouseDown(angle)

AmPmClickRunning(toAM) == RunningCase /\ AmPmClick(toAM)

MouseDownRunning(hand) == RunningCase /\ MouseDown(hand)

MouseUpRunning == RunningCase /\ MouseUp

NextRunAdjust ==
  \/ Connect
  \/ \E b \in BOOLEAN : SetRunningConnected(b)
  \/ Tick(1500)
  \/ Frame
  \/ FocusRunning
  \/ SetValueRunning(T0830)
  \/ KeyDownRunning("ArrowUp")
  \/ FaceMouseDownRunning(90)
  \/ AmPmClickRunning(FALSE)
  \/ MouseDownRunning("second")
  \/ MouseUpRunning

SpecRunAdjust == Init /\ [][NextRunAdjust]_vars

\* The string HH:mm:ss of the time the string s writes.
Canonical(s) ==
  <<s[1], s[2], ":", s[4], s[5], ":">>
    \o (IF Len(s) = 8 THEN <<s[7], s[8]>> ELSE <<"0", "0">>)

\* C20: when value changes to a valid time V while running is true, by an
\* assignment or by a committed keyboard step, face click, AM/PM toggle or
\* drag release, the base time becomes V, _accumulatedMs becomes 0 and
\* _runStartTimestamp becomes the current time, and getValue() read at that
\* instant returns the time V (written HH:mm:ss).
C20_ValueChangeRestartsRun ==
  hist.fired = 1 /\ running /\ value # NULL /\ InRangeTimeString(value) =>
    /\ _baseTimeMs = TimeMs(TwoDigits(value[1], value[2]),
                            TwoDigits(value[4], value[5]),
                            IF Len(value) = 8
                            THEN TwoDigits(value[7], value[8]) ELSE 0)
    /\ _accumulatedMs = 0
    /\ _runStartTimestamp = now
    /\ getValue(This, now) = Canonical(value)

\* ArrowUp on a clock that had been running for a second and a half.
C20_Witness ==
  /\ hist.op = "ArrowUp"
  /\ hist.fired = 1
  /\ running
  /\ value = <<"0", "8", ":", "3", "1", ":", "0", "1">>
  /\ _runStartTimestamp = now
  /\ now > Now0

\* C21: while a hand is being dragged, the displayed triple changes only
\* through drag moves: an animation frame of the running clock leaves the
\* dragged position as it is.
C21_DragKeepsPosition ==
  [][hist'.op = "Frame" /\ _draggingHand # NoHand
       => UNCHANGED <<_hours, _minutes, _seconds>>]_vars

(***************************************************************************)
(* The bounds check on its own: min and max are assigned and times are     *)
(* checked against them.                                                   *)
(***************************************************************************)
T082959 == <<"0", "8", ":", "2", "9", ":", "5", "9">>

T083000 == <<"0", "8", ":", "3", "0", ":", "0", "0">>

T170001 == <<"1", "7", ":", "0", "0", ":", "0", "1">>

BoundStrings == {NULL, Tempty, Tabc, Tabcd, T0830, T170000}

CheckedTimes == {T000000, T082959, T083000, T120000, T170000, T170001}

NextBoundsCheck ==
  \/ \E m \in BoundStrings : SetMin(m)
  \/ \E m \in BoundStrings : SetMax(m)
  \/ \E timeString \in CheckedTimes : IsWithinBoundsCall(timeString)

SpecBoundsCheck == Init /\ [][NextBoundsCheck]_vars

\* The seconds from midnight a string of the shape HH:mm or HH:mm:ss writes.
ShapedSeconds(s) ==
  TwoDigits(s[1], s[2]) * 3600 + TwoDigits(s[4], s[5]) * 60
    + (IF Len(s) = 8 THEN TwoDigits(s[7], s[8]) ELSE 0)

\* The bound s is absent (null or empty) or malformed (no time string).
AbsentOrMalformed(s) == s = NULL \/ ~TimeShaped(s)

\* C25: the bounds check accepts a time t exactly when (min is absent or
\* malformed, or t >= min) and (max is absent or malformed, or t <= max),
\* both comparisons inclusive and to the second; a min or max without ':'
\* is ignored, and when min > max every time is rejected.
C25_BoundsCheck ==
  call.fn = "_isWithinBounds" =>
    LET mn == call.arg[1]
        mx == call.arg[2]
        t == call.arg[3]
    IN call.ret <=>
         /\ AbsentOrMalformed(mn) \/ ShapedSeconds(t) >= ShapedSeconds(mn)
         /\ AbsentOrMalformed(mx) \/ ShapedSeconds(t) <= ShapedSeconds(mx)

(***************************************************************************)
(* The AM/PM indicators, under SpecPointer.                                *)
(***************************************************************************)
\* The clock after a click on the moon and then one on the sun.
ToggledToPmAndBack ==
  LET c1 == Update(This, _toggleAmPm(This, FALSE, now), now)
  IN Update(c1, _toggleAmPm(c1, TRUE, now), now)

\* A click on the indicator of the other half moves the hours by 12 and
\* keeps minutes and seconds; one on the indicator of the half the clock is
\* in changes nothing; the indicators follow the hours.
AmPmClickEffect ==
  /\ AmPmClick(FALSE) /\ _hours < 12 =>
       /\ _hours' = _hours + 12
       /\ UNCHANGED <<_minutes, _seconds>>
  /\ AmPmClick(TRUE) /\ _hours >= 12 =>
       /\ _hours' = _hours - 12
       /\ UNCHANGED <<_minutes, _seconds>>
  /\ AmPmClick(_hours < 12) => UNCHANGED <<value, _hours, _minutes, _seconds>>
  /\ _renderAmPmIndicators(This).sun <=> _hours < 12
  /\ _renderAmPmIndicators(This).moon <=> _hours >= 12

\* C27: on an interactive clock with no bounds a click on the PM indicator
\* when hours < 12 adds 12 to the hours, one on the AM indicator when
\* hours >= 12 subtracts 12, both keeping minutes and seconds; a click on
\* the indicator of the half the clock is in changes nothing; toggling to
\* PM and then to AM restores the original value; the AM indicator is
\* active exactly when hours < 12 and the PM indicator exactly when
\* hours >= 12.
C27_AmPmToggle ==
  [][/\ hist'.op = "AmPmClick"
     /\ adjustable /\ ~disabled /\ ~readonly
     /\ Falsy(min) /\ Falsy(max)
     => /\ AmPmClickEffect
        /\ _hours < 12 => ToggledToPmAndBack.value = value]_vars

\* C27 with the round trip stated for the displayed time: toggling to PM
\* and then to AM restores the displayed hours, minutes and seconds and
\* leaves value that time written HH:mm:ss, which is the original value
\* when the original value was that string.
C27_AmPmToggleDisplayedTime ==
  [][/\ hist'.op = "AmPmClick"
     /\ adjustable /\ ~disabled /\ ~readonly
     /\ Falsy(min) /\ Falsy(max)
     => /\ AmPmClickEffect
        /\ _hours < 12 =>
             /\ ToggledToPmAndBack._hours = _hours
             /\ ToggledToPmAndBack._minutes = _minutes
             /\ ToggledToPmAndBack._seconds = _seconds
             /\ ToggledToPmAndBack.value =
                  Padded(_hours) \o <<":">> \o Padded(_minutes) \o <<":">>
                    \o Padded(_seconds)]_vars

\* The clock showed 00:00:01 and was toggled to PM and back to AM.
C27_Witness ==
  /\ hist.op = "AmPmClick"
  /\ hist.fired = 1
  /\ value = <<"0", "0", ":", "0", "0", ":", "0", "1">>
  /\ _hours = 0 /\ _minutes = 0 /\ _seconds = 1
  /\ _renderAmPmIndicators(This).sun

(***************************************************************************)
(* Keyboard steps one after the other, under SpecKeys.                     *)
(***************************************************************************)
\* The clock c after a keydown of key and the property observers.
KeyPressed(c, key) == Update(c, _onKeyDown(c, key, now), now)

\* The displayed time written HH:mm:ss.
DisplayedString ==
  Padded(_hours) \o <<":">> \o Padded(_minutes) \o <<":">> \o Padded(_seconds)

\* C29: keyboard steps are inverse to each other: on an interactive,
\* focused clock that is not running and has no min or max, for every
\* displayed time from 00:00:00 to 23:59:59 and every step with
\* 0 < step <= 86400 (the default of 60 included), ArrowUp followed by
\* ArrowDown, and ArrowDown followed by ArrowUp, leave value the original
\* displayed time and the display at it.
C29_KeyStepsInverse ==
  connected /\ KeyStepCase /\ EffectiveStep <= daySeconds =>
    LET upDown == KeyPressed(KeyPressed(This, "ArrowUp"), "ArrowDown")
        downUp == KeyPressed(KeyPressed(This, "ArrowDown"), "ArrowUp")
    IN /\ upDown.value = DisplayedString
       /\ downUp.value = DisplayedString
       /\ Time(upDown._hours, upDown._minutes, upDown._seconds)
            = Time(_hours, _minutes, _seconds)
       /\ Time(downUp._hours, downUp._minutes, downUp._seconds)
            = Time(_hours, _minutes, _seconds)

\* 12:00:00 stepped up to 12:01:00 and back down.
C29_Witness ==
  /\ hist.op = "ArrowDown"
  /\ hist.fired = 1
  /\ keys = 2
  /\ step = 60
  /\ value = T120000
  /\ KeyStepCase

(***************************************************************************)
(* parseTime and formatTime one after the other, under SpecStatic.         *)
(***************************************************************************)
\* C30: parsing and formatting round-trip: for hours in 0..23 and minutes
\* and seconds in 0..59, parseTime of the string formatTime returns is
\* exactly the three numbers; and for a string HH:mm:ss in that range,
\* formatTime of the fields parseTime returns is the string.
C30_RoundTrip ==
  /\ /\ call.fn = "formatTime"
     /\ call.arg[1] \in 0..23
     /\ call.arg[2] \in 0..59
     /\ Len(call.arg) = 3 => call.arg[3] \in 0..59
     => parseTime(call.ret)
          = Time(call.arg[1], call.arg[2],
                 IF Len(call.arg) = 3 THEN call.arg[3] ELSE 0)
  /\ call.fn = "parseTime" /\ IsTimeOfDay(call.arg) =>
       formatTime(call.ret.hours, call.ret.minutes, call.ret.seconds)
         = call.arg

\* formatTime(23, 59, 59) returned the string that parses to 23, 59, 59.
C30_Witness ==
  /\ call.fn = "formatTime"
  /\ call.arg = <<23, 59, 59>>
  /\ call.ret = T235959
  /\ parseTime(call.ret) = Time(23, 59, 59)

====
